---- MODULE Spec2Model ----
(***************************************************************************)
(* The video syndication pipeline of adikorindo/20detik: the ledger of     *)
(* posted videos, the per-candidate processing of the cycle loop and the   *)
(* per-page publish engine, for the two script variants src/main.py and    *)
(* src/20detik.py.  The variable `variant` says which script is running.   *)
(*                                                                         *)
(* Values.  URLs are integers: the page links found by discovery are       *)
(* 1..NumLinks, the media URLs that extraction returns are                 *)
(* NumLinks+1..2*NumLinks      (a page link of 20.detik.com is never the *)
(* locator of a media file).  Python strings that matter as strings (the   *)
(* content hash) are sequences: "" is <<>>, an MD5 digest is <<h>>.        *)
(* Python's None, as returned by dict.get for a missing key, is PyNone.    *)
(***************************************************************************)
EXTENDS Integers, Sequences, FiniteSets

\* ---------------------------------------------------------------- bounds
NumLinks == 4
NumPages == 2
MaxCycles == 2
MaxFaults == 1
NumApiUrls == 2
NumApiHashes == 2
MaxLedger == 2
MaxAttempts == 46

\* ------------------------------------------------------ program constants
MAX_UPLOADS_PER_CYCLE == 3
MAX_API_CALLS == 180
MAX_RETRIES == 3
REEL_MAX_DURATION == 60

\* What get_video_links can return: nothing (also when the request fails),
\* every video of the site, or every video but the newest one.
Listings == {{}} \cup {1..hi : hi \in (NumLinks - 1)..NumLinks}

\* The duration the page of a link shows: every second page a video longer
\* than a Reel, every third of the others no parseable duration (0).
DurationOf(l) ==
    IF l % 2 = 0 THEN REEL_MAX_DURATION + 1
    ELSE IF l % 3 = 0 THEN 0 ELSE REEL_MAX_DURATION

PyNone == <<0, 0>>
EmptyStr == <<>>

VARIABLES
    variant,        \* "main" (src/main.py) or "20detik" (src/20detik.py)
    pc,             \* position of the single control thread
    cycle,          \* number of cycles started
    posted_videos,  \* VideoManager.posted_videos, the in-memory ledger
    data_file,      \* content of posted_videos.json
    video_links,    \* the links returned by this cycle's get_video_links
    remaining,      \* links of video_links the for loop has not reached yet
    new_videos,     \* main(): new_videos
    link,           \* main(): link, the candidate being processed
    details,        \* main(): details
    video_hash,     \* main(): video_hash (main.py only)
    original_path,  \* main(): original_path
    video_path,     \* main(): video_path
    is_reel,        \* main(): is_reel
    disk,           \* files present in DOWNLOAD_DIR
    created,        \* files created for the candidate being processed
    page_idx,       \* index of `page` in the loop over the pages
    upload_results, \* upload_to_all_pages: results / main(): upload_results
    calls,          \* remote calls of the latest page attempt, in order
    attempted,      \* pages whose attempt has begun for the current candidate
    cycle_base,     \* length of the ledger when the cycle started
    all_published,  \* every candidate taken so far in this cycle was recorded
    retry,          \* links whose last processing ended unpublished: left
                    \* behind by the cap, or failed on every page
    faults,         \* candidates hit by an adverse outcome so far (bounded)
    faulty,         \* the current candidate is one of them
    arg,            \* the latest direct call of a VideoManager method
    ret,            \* what that call returned
    before,         \* the ledger when that call was made
    api_calls,      \* FacebookUploader.api_calls of the uploader in use
    window_calls,   \* remote calls made for the account in the current hour
    attempts,       \* publish attempts begun for the account
    video_id,       \* _upload_reel: video_id (0: none yet)
    remote_status,  \* processing state of the Reel at the remote service
    since_reset,    \* time.time() - last_reset against 3600: under, at, over
    fb_pages_file,  \* what facebook_pages.json holds at start-up
    exit_status     \* the exit status, what ended the process, and where

cycleVars == <<cycle, video_links, remaining, new_videos, cycle_base, all_published>>
apiVars == <<arg, ret, before>>
uploaderVars ==
    <<api_calls, window_calls, attempts, video_id, remote_status, since_reset>>
serviceVars == <<fb_pages_file, exit_status>>
ledgerVars == <<posted_videos, data_file>>
candVars == <<link, details, video_hash, original_path, video_path, is_reel>>
diskVars == <<disk, created>>
engineVars == <<page_idx, upload_results, calls, attempted>>
vars == <<variant, pc, cycleVars, ledgerVars, candVars, diskVars, engineVars,
          retry, faults, faulty, apiVars, uploaderVars,
                   serviceVars>>

\* ------------------------------------------------------------- the ledger
\* dict.get(key): the value, or None when the record has no such key.
Get(video, key) == IF key \in DOMAIN video THEN video[key] ELSE PyNone

\* dict.get(key, default)
GetOr(video, key, default) == IF key \in DOMAIN video THEN video[key] ELSE default

\* src/main.py VideoManager.is_video_posted(video_url, video_hash)
IsVideoPostedMain(ledger, video_url, hash) ==
    \E i \in 1..Len(ledger) :
        \/ Get(ledger[i], "source_url") = video_url
        \/ Get(ledger[i], "hash") = hash

\* src/20detik.py VideoManager.is_video_posted(video_url)
IsVideoPosted20(ledger, video_url) ==
    \E i \in 1..Len(ledger) : Get(ledger[i], "source_url") = video_url

\* add_posted_video without its test: the record is appended always.
AddPostedVideoMainAlways(ledger, video_details) == Append(ledger, video_details)

\* src/main.py VideoManager.add_posted_video: the ledger after the call
AddPostedVideoMain(ledger, video_details) ==
    IF ~IsVideoPostedMain(ledger, video_details.source_url,
                          GetOr(video_details, "hash", EmptyStr))
    THEN Append(ledger, video_details)
    ELSE ledger

\* add_posted_video putting the new record first instead of last.
AddPostedVideo20AtHead(ledger, video_details) ==
    IF ~IsVideoPosted20(ledger, video_details.source_url)
    THEN <<video_details>> \o ledger
    ELSE ledger

\* src/20detik.py VideoManager.add_posted_video: the ledger after the call
AddPostedVideo20(ledger, video_details) ==
    IF ~IsVideoPosted20(ledger, video_details.source_url)
    THEN Append(ledger, video_details)
    ELSE ledger

AddPostedVideo(v, ledger, video_details) ==
    IF v = "main" THEN AddPostedVideoMain(ledger, video_details)
    ELSE AddPostedVideo20(ledger, video_details)

\* load_posted_videos: a missing, zero-byte or unparseable file is the empty list
LoadPostedVideos(file) == IF file.kind = "list" THEN file.records ELSE <<>>

\* A write that would store the newest record only.
SaveLastOnly(ledger) ==
    [kind |-> "list",
     records |-> IF ledger = <<>> THEN <<>> ELSE <<ledger[Len(ledger)]>>]

\* save_posted_videos: the whole in-memory list is written
SavePostedVideos(ledger) == [kind |-> "list", records |-> ledger]

\* save_posted_videos runs inside add_posted_video, only when it appended.
SavedFile(ledger, after, file) ==
    IF after # ledger THEN SavePostedVideos(after) ELSE file

\* What a write of save_posted_videos leaves in the file.  open(..., 'w')
\* may fail, and the file is as it was; it truncates the file, so a
\* json.dump that fails afterwards leaves an unparseable rest.  Either way
\* the exception is caught and printed.
WriteOutcomes == {"ok", "open_failed", "dump_failed"}
Unparseable == [kind |-> "garbage", records |-> <<>>]
WrittenFile(ledger, write, file) ==
    IF write = "ok" THEN SavePostedVideos(ledger)
    ELSE IF write = "open_failed" THEN file
    ELSE Unparseable

\* An element of the stored JSON list that is not an object (a number):
\* json.load returns it as it is, and it has no method get.
JsonNumber == [number |-> 1]
IsDict(video) == "number" \notin DOMAIN video

\* The records any() looks at before it reaches an element that is not a
\* dict (all of them when there is none).
DictPrefix(ledger) ==
    LET bad == {k \in 1..Len(ledger) : ~IsDict(ledger[k])}
    IN IF bad = {} THEN ledger
       ELSE SubSeq(ledger, 1, (CHOOSE k \in bad : \A j \in bad : k <= j) - 1)

IsVideoPosted(v, ledger, video_url, hash) ==
    IF v = "main" THEN IsVideoPostedMain(ledger, video_url, hash)
    ELSE IsVideoPosted20(ledger, video_url)

\* is_video_posted raises AttributeError: any() stops at the first match,
\* and calls video.get on an element that is not a dict when no record
\* before it matched.
IsVideoPostedRaises(v, ledger, video_url, hash) ==
    /\ Len(DictPrefix(ledger)) < Len(ledger)
    /\ ~IsVideoPosted(v, DictPrefix(ledger), video_url, hash)

\* ------------------------------------------------------- pure decisions
\* The cap test with > for >=: one more video passes.
CapReachedLate(n) == n > MAX_UPLOADS_PER_CYCLE

\* The cap test against 1: the loop ends after the first published video.
CapReachedAtOnce(n) == n >= 1

\* main(): if new_videos >= MAX_UPLOADS_PER_CYCLE: break
CapReached(n) == n >= MAX_UPLOADS_PER_CYCLE

\* The threshold test with < for <=: a video of exactly 60 s is no Reel.
IsReelBelow(duration) == duration < REEL_MAX_DURATION

\* main(): is_reel = details['duration'] <= 60
IsReel(duration) == duration <= REEL_MAX_DURATION

\* The media URL the page of a link exposes.
MediaOf(l) == NumLinks + l

\* The MD5 digest of the file a media URL serves.
HashOf(url) == <<url - NumLinks>>

\* `for link in video_links`: the links are numbered in the order in which
\* the process iterates over list(set(video_links)).
NextLink(S) == CHOOSE l \in S : \A k \in S : l <= k

\* ids the remote service hands out (any truthy value)
RemoteIds == {1}

OrigFile(url) == [kind |-> "orig", id |-> url]
ReelFile(url) == [kind |-> "reel", id |-> url]
NoFile == [kind |-> "none", id |-> 0]
NoDetails == [source_url |-> 0, duration |-> 0]

\* main.py: sum(1 for r in upload_results if r['status'] == 'success')
SuccessCount(results) ==
    Cardinality({i \in 1..Len(results) : results[i].status = "success"})

\* 20detik.py: `if upload_results:`; main.py: `if success_count > 0:`
ShouldRecord(v, results) ==
    IF v = "main" THEN SuccessCount(results) > 0 ELSE Len(results) > 0

\* The record handed to add_posted_video.
RecordOf(v, d, h, results) ==
    IF v = "main"
    THEN [source_url |-> d.source_url, hash |-> h, posted_to |-> results]
    ELSE [source_url |-> d.source_url, posted_to |-> results]

\* ------------------------------------------------------------------ Init
\* A record a previous run of 20detik.py left in posted_videos.json (both
\* scripts use the same file): it has no 'hash' key.
OldRecord20 ==
    [source_url |-> NumLinks + 1,
     posted_to |-> <<[page |-> 1, post_id |-> 1, is_reel |-> TRUE]>>]

\* A record a previous run of main.py left there: the video that the second
\* link now serves, published from a URL the site no longer lists.
OldRecordMain ==
    [source_url |-> NumLinks + NumLinks + 1,
     hash |-> HashOf(MediaOf(2)),
     posted_to |-> <<[page |-> 1, status |-> "success", post_id |-> 1]>>]

InitFiles ==
    { [kind |-> "missing", records |-> <<>>],
      [kind |-> "list", records |-> <<OldRecord20, OldRecordMain>>] }

NoCall == [op |-> "none"]

\* The process is running.
NotExited == [code |-> -1, by |-> "running", at |-> "running"]

FreshCandidate ==
    /\ details' = NoDetails
    /\ video_hash' = EmptyStr
    /\ original_path' = NoFile
    /\ video_path' = NoFile
    /\ is_reel' = FALSE
    /\ page_idx' = 0
    /\ upload_results' = <<>>
    /\ calls' = <<>>
    /\ attempted' = <<>>

Init ==
    /\ variant \in {"main", "20detik"}
    /\ pc = "discover"
    /\ cycle = 0
    /\ data_file \in InitFiles
    /\ posted_videos = LoadPostedVideos(data_file)
    /\ video_links = {}
    /\ remaining = {}
    /\ new_videos = 0
    /\ link = 0
    /\ details = NoDetails
    /\ video_hash = EmptyStr
    /\ original_path = NoFile
    /\ video_path = NoFile
    /\ is_reel = FALSE
    /\ disk = {}
    /\ created = {}
    /\ page_idx = 0
    /\ upload_results = <<>>
    /\ calls = <<>>
    /\ attempted = <<>>
    /\ cycle_base = Len(posted_videos)
    /\ all_published = TRUE
    /\ retry = {}
    /\ faults = 0
    /\ faulty = FALSE
    /\ arg = NoCall
    /\ ret = PyNone
    /\ before = <<>>
    /\ api_calls = 0
    /\ window_calls = 0
    /\ attempts = 0
    /\ video_id = 0
    /\ remote_status = "none"
    /\ since_reset = "under"
    /\ fb_pages_file = "valid"
    /\ exit_status = NotExited

\* ------------------------------------------------------ the cycle loop
\* The environment (the site, the downloader, FFmpeg, the page
\* configuration, the remote service) answers adversely, any number of
\* times, during the processing of at most MaxFaults candidates of a run.
Outcome(adverse) ==
    /\ adverse => (faulty \/ faults < MaxFaults)
    /\ faults' = IF adverse /\ ~faulty THEN faults + 1 ELSE faults

\* faulty after a step of the candidate that had the outcome `adverse`
Mark(adverse) == faulty' = (faulty \/ adverse)

\* The candidate's processing is over (continue, or the end of the loop
\* body): control is back at the head of `for link in video_links`.  `how`
\* is "published" (recorded), "duplicate" (skipped as already posted),
\* "failed" (every page failed) or "dropped" (anything else).
EndCandidate(how) ==
    /\ pc' = "for_head"
    /\ faulty' = FALSE
    /\ all_published' = (all_published /\ how \in {"published", "duplicate"})
    /\ retry' = IF how = "failed" THEN retry \cup {link}
                ELSE IF how = "published" THEN retry \ {link}
                ELSE retry
    /\ link' = 0
    /\ FreshCandidate

\* video_links = scraper.get_video_links(); an empty list (no candidate, or
\* a transport failure) sleeps until the next check.
Discover ==
    /\ pc = "discover"
    /\ cycle < MaxCycles
    /\ \E found \in Listings :
        /\ video_links' = found
        /\ remaining' = found
        /\ pc' = IF found = {} THEN "sleep" ELSE "for_head"
        /\ new_videos' = 0
    /\ cycle' = cycle + 1
    /\ cycle_base' = Len(posted_videos)
    /\ all_published' = TRUE
    /\ UNCHANGED <<variant, ledgerVars, candVars, diskVars, engineVars>>
    /\ UNCHANGED <<retry, faults, faulty, apiVars, uploaderVars,
                   serviceVars>>

\* The head of `for link in video_links`.
ForHead ==
    /\ pc = "for_head"
    /\ IF remaining = {} \/ (variant = "main" /\ CapReached(new_videos))
       THEN /\ pc' = "sleep"
            /\ retry' = retry \cup remaining
            /\ UNCHANGED <<remaining, all_published, candVars, engineVars,
                           faulty>>
       ELSE LET l == NextLink(remaining) IN
            /\ remaining' = remaining \ {l}
            /\ IF variant = "20detik" /\ IsVideoPosted20(posted_videos, l)
               THEN EndCandidate("duplicate")
               ELSE /\ pc' = "details"
                    /\ link' = l
                    /\ FreshCandidate
                    /\ UNCHANGED <<all_published, faulty, retry>>
    /\ created' = {}
    /\ UNCHANGED <<variant, cycle, video_links, new_videos, cycle_base,
                   ledgerVars, disk>>
    /\ UNCHANGED <<faults, apiVars, uploaderVars,
                   serviceVars>>

\* details = scraper.get_video_details(link); main.py then checks the ledger
\* by URL with an empty hash.
GetDetails ==
    /\ pc = "details"
    /\ \E found \in BOOLEAN :
        /\ Outcome(~found)
        /\ IF ~found
           THEN EndCandidate("dropped")
           ELSE LET det == [source_url |-> MediaOf(link),
                            duration |-> DurationOf(link)] IN
                IF variant = "main"
                   /\ IsVideoPostedMain(posted_videos, det.source_url, EmptyStr)
                THEN EndCandidate("duplicate")
                ELSE /\ details' = det
                     /\ pc' = "download"
                     /\ UNCHANGED <<link, video_hash, original_path, video_path,
                                    is_reel, engineVars, all_published, faulty,
                                    retry>>
    /\ UNCHANGED <<variant, cycle, video_links, remaining, new_videos,
                   cycle_base, ledgerVars, diskVars, apiVars, uploaderVars,
                   serviceVars>>

\* original_path = VideoProcessor.download_video(...); main.py then hashes
\* the file and checks the ledger by hash.
Download ==
    /\ pc = "download"
    /\ \E ok \in BOOLEAN :
        LET h == HashOf(details.source_url) IN
        /\ Outcome(~ok)
        /\ IF ~ok
           THEN EndCandidate("dropped") /\ UNCHANGED diskVars
           ELSE LET f == OrigFile(details.source_url) IN
                /\ created' = created \cup {f}
                /\ IF variant = "main"
                      /\ IsVideoPostedMain(posted_videos, details.source_url, h)
                   THEN /\ disk' = disk \ {f}
                        /\ EndCandidate("duplicate")
                   ELSE /\ disk' = disk \cup {f}
                        /\ original_path' = f
                        /\ video_hash' = IF variant = "main" THEN h ELSE video_hash
                        /\ pc' = "format"
                        /\ UNCHANGED <<link, details, video_path, is_reel,
                                       engineVars, all_published, faulty,
                                       retry>>
    /\ UNCHANGED <<variant, cycle, video_links, remaining, new_videos,
                   cycle_base, ledgerVars, apiVars, uploaderVars,
                   serviceVars>>

\* An exception leaves the candidate's processing: main.py catches it per
\* candidate (except Exception: continue), 20detik.py only at the top of the
\* cycle loop (sleep 300 s, then a new cycle).
RaiseInCandidate ==
    IF variant = "main"
    THEN EndCandidate("dropped")
    ELSE /\ pc' = "cooldown"
         /\ faulty' = FALSE
         /\ all_published' = FALSE
         /\ link' = 0
         /\ FreshCandidate
         /\ UNCHANGED retry

\* A conversion that would move its input instead of reading it.
ConvertConsumingInput(files, input, out) ==
    (IF out = "ok" THEN files \cup {ReelFile(input.id)} ELSE files) \ {input}

\* VideoProcessor.convert_to_reel_format: the download directory after the
\* call.  FFmpeg reads input_path and, when it succeeds, writes
\* reel_<name>; the method removes nothing.
ConvertToReelFormat(files, input, out) ==
    IF out = "ok" THEN files \cup {ReelFile(input.id)} ELSE files

\* is_reel = details['duration'] <= 60; a Reel is converted and the original
\* removed.  convert_to_reel_format returns None when FFmpeg fails; in
\* 20detik.py any other exception of subprocess.run (FFmpeg not installed)
\* is not caught there.  A failed FFmpeg is taken to leave no output file.
FormatDecision ==
    /\ pc = "format"
    /\ IF IsReel(details.duration)
       THEN \E out \in {"ok", "failed", "raised"} :
            /\ out = "raised" => variant = "20detik"
            /\ Outcome(out # "ok")
            /\ IF out = "raised"
               THEN RaiseInCandidate /\ UNCHANGED diskVars
               ELSE IF out = "failed"
               THEN /\ disk' = ConvertToReelFormat(disk, original_path, out)
                                    \ {original_path}
                    /\ UNCHANGED created
                    /\ EndCandidate("dropped")
               ELSE LET g == ReelFile(details.source_url) IN
                    /\ disk' = ConvertToReelFormat(disk, original_path, out)
                                    \ {original_path}
                    /\ created' = created \cup {g}
                    /\ video_path' = g
                    /\ is_reel' = TRUE
                    /\ pc' = "upload_start"
                    /\ UNCHANGED <<link, details, video_hash, original_path,
                                   engineVars, all_published, faulty, retry>>
       ELSE /\ video_path' = original_path
            /\ is_reel' = FALSE
            /\ pc' = "upload_start"
            /\ UNCHANGED <<link, details, video_hash, original_path,
                           engineVars, all_published, diskVars, faults,
                           faulty, retry>>
    /\ UNCHANGED <<variant, cycle, video_links, remaining, new_videos,
                   cycle_base, ledgerVars, apiVars, uploaderVars,
                   serviceVars>>

\* ---------------------------------------------------- the publish engine
\* The entry of facebook_pages.json for page p.  Page ids and names are
\* the page numbers; the access tokens are numbers that are neither page
\* numbers nor post ids.
AccessTokens == {NumPages + p : p \in 1..NumPages}
PageConfig(p) ==
    [page_id |-> p, page_name |-> p, access_token |-> NumPages + p]

\* A failed entry that would carry a post id all the same.
FailedResultWithId(p, reason) ==
    [page |-> p, status |-> "failed", error |-> reason, post_id |-> 0]

\* An entry made by copying the page's configuration entry into it.
SuccessResultWithConfig(v, p, id, reel) ==
    [page |-> PageConfig(p).page_name, status |-> "success", post_id |-> id,
     access_token |-> PageConfig(p).access_token]

\* The entries appended for a page that gave no post id: they take the
\* page_name of the configuration entry and nothing else from it.
FailedResult(p, reason) ==
    [page |-> PageConfig(p).page_name, status |-> "failed", error |-> reason]
ErrorResult(p) ==
    [page |-> PageConfig(p).page_name, status |-> "error", error |-> "exception"]

\* The entry appended for a page that returned a post id.
SuccessResult(v, p, id, reel) ==
    IF v = "main"
    THEN [page |-> PageConfig(p).page_name, status |-> "success", post_id |-> id]
    ELSE [page |-> PageConfig(p).page_name, post_id |-> id, is_reel |-> reel]

Call(p, op, ok) == [page |-> p, op |-> op, ok |-> ok]

\* How far the attempt for one page gets.  "rejected": validate_token is
\* falsy (main.py only); "start", "transfer", "finish": that phase of
\* _upload_reel fails; "video": the POST of _upload_regular_video fails or
\* its response has no id; "raised": an exception reaches the except clause
\* of the loop over the pages; "published": a post id is returned.
Outcomes(v, reel) ==
    (IF v = "main" THEN {"rejected"} ELSE {})
    \cup (IF reel THEN {"start", "transfer", "finish"} ELSE {"video"})
    \cup {"raised", "published"}

\* validate_token: one GET, made before anything else (main.py only)
TokenCalls(v, p, out) ==
    IF v = "main" /\ out # "raised"
    THEN <<Call(p, "validate", out # "rejected")>>
    ELSE <<>>

\* _upload_reel entered although the token check failed (no `continue`).
ReelCallsUnchecked(p, out) ==
    IF out = "raised" THEN <<>>
    ELSE <<Call(p, "start", out # "start")>>
         \o (IF out = "start" THEN <<>>
             ELSE <<Call(p, "transfer", out # "transfer")>>
                  \o (IF out = "transfer" THEN <<>>
                      ELSE <<Call(p, "finish", out # "finish")>>))

\* _upload_reel: start, then the transfer, then finish; each phase is
\* reached only when the one before it succeeded.
ReelCalls(p, out) ==
    IF out \in {"rejected", "raised"} THEN <<>>
    ELSE <<Call(p, "start", out # "start")>>
         \o (IF out = "start" THEN <<>>
             ELSE <<Call(p, "transfer", out # "transfer")>>
                  \o (IF out = "transfer" THEN <<>>
                      ELSE <<Call(p, "finish", out # "finish")>>))

\* _upload_regular_video: one POST
RegularCalls(p, out) ==
    IF out \in {"rejected", "raised"} THEN <<>>
    ELSE <<Call(p, "video", out # "video")>>

\* The remote calls of the attempt for page p, in order.
AttemptCalls(v, p, reel, out) ==
    TokenCalls(v, p, out)
    \o (IF reel THEN ReelCalls(p, out) ELSE RegularCalls(p, out))

\* The results after the attempt for page p.  main.py appends one entry
\* whatever the outcome; 20detik.py appends an entry only for a post id.
AttemptResults(v, results, p, reel, out, id) ==
    IF out = "published"
    THEN Append(results, SuccessResult(v, p, id, reel))
    ELSE IF v # "main" THEN results
    ELSE IF out = "rejected"
    THEN Append(results, FailedResult(p, "Invalid access token"))
    ELSE IF out = "raised"
    THEN Append(results, ErrorResult(p))
    ELSE Append(results, FailedResult(p, "Upload returned no post ID"))

\* `continue` / the end of the body of `for page in pages`
NextPagePc(p) == IF p < NumPages THEN "page" ELSE "record"

\* main.py: upload_to_all_pages reads the page configuration again and
\* raises when it cannot be loaded.  20detik.py iterates over fb_pages.
UploadStart ==
    /\ pc = "upload_start"
    /\ \E loaded \in BOOLEAN :
        /\ ~loaded => variant = "main"
        /\ Outcome(~loaded)
        /\ IF loaded
           THEN /\ pc' = "page"
                /\ page_idx' = 1
                /\ upload_results' = <<>>
                /\ UNCHANGED <<candVars, calls, attempted, all_published,
                               faulty, retry>>
           ELSE RaiseInCandidate
    /\ UNCHANGED <<variant, cycle, video_links, remaining, new_videos,
                   cycle_base, ledgerVars, diskVars, apiVars, uploaderVars,
                   serviceVars>>

\* The entry of facebook_pages.json for page p has no key `field`.  Only
\* 20detik.py gets past start-up with such a file (main.py validates the
\* entries); the malformed entry is taken to be the first.
EntryLacks(p, field) == p = 1 /\ fb_pages_file = field

\* The body of the loop over the pages, for the page page_idx: the token
\* check (main.py), the upload by kind, the entry appended to the results.
\* With an entry that has no page_name, the print at the top of the body
\* raises KeyError and so does the print of the except clause: the
\* exception leaves the loop.  With one that has no page_id or access_token,
\* FacebookUploader(page) raises and the except clause goes on to the next
\* page.
UploadToPage ==
    /\ pc = "page"
    /\ IF EntryLacks(page_idx, "no_page_name")
       THEN /\ RaiseInCandidate
            /\ UNCHANGED <<faults, cycle, video_links, remaining, new_videos,
                           cycle_base>>
       ELSE /\ \E out \in Outcomes(variant, is_reel), id \in RemoteIds :
                LET broken == \/ EntryLacks(page_idx, "no_page_id")
                              \/ EntryLacks(page_idx, "no_access_token")
                IN /\ broken => out = "raised"
                   /\ Outcome(out # "published" /\ ~broken)
                   /\ Mark(out # "published" /\ ~broken)
                   /\ attempted' = Append(attempted, page_idx)
                   /\ calls' = AttemptCalls(variant, page_idx, is_reel, out)
                   /\ upload_results' =
                         AttemptResults(variant, upload_results, page_idx,
                                        is_reel, out, id)
            /\ pc' = NextPagePc(page_idx)
            /\ page_idx' = IF page_idx < NumPages THEN page_idx + 1 ELSE page_idx
            /\ UNCHANGED <<cycleVars, candVars, retry>>
    /\ UNCHANGED <<variant, ledgerVars, diskVars, apiVars, uploaderVars,
                   serviceVars>>

\* After the pages: the record is added when a page succeeded, then the
\* uploaded file is removed.
Record ==
    /\ pc = "record"
    /\ LET rec == RecordOf(variant, details, video_hash, upload_results)
           after == IF ShouldRecord(variant, upload_results)
                    THEN AddPostedVideo(variant, posted_videos, rec)
                    ELSE posted_videos
       IN /\ posted_videos' = after
          /\ data_file' = SavedFile(posted_videos, after, data_file)
          /\ new_videos' = IF ShouldRecord(variant, upload_results)
                           THEN new_videos + 1 ELSE new_videos
          /\ EndCandidate(IF after # posted_videos THEN "published"
                          ELSE IF ShouldRecord(variant, upload_results)
                          THEN "dropped" ELSE "failed")
    /\ disk' = disk \ {video_path}
    /\ UNCHANGED <<variant, cycle, video_links, remaining, cycle_base, created>>
    /\ UNCHANGED <<faults, apiVars, uploaderVars,
                   serviceVars>>

\* Back at the top of `while True`.  The locals of the finished cycle are
\* dead there (each is assigned again before it is read), so they are put
\* back to their initial values.
NewIteration ==
    /\ pc' = "discover"
    /\ video_links' = {}
    /\ remaining' = {}
    /\ new_videos' = 0
    /\ cycle_base' = Len(posted_videos)
    /\ all_published' = TRUE
    /\ created' = {}
    /\ UNCHANGED <<variant, cycle, ledgerVars, candVars, disk, engineVars,
                   retry, faults, faulty, apiVars, uploaderVars,
                   serviceVars>>

\* time.sleep(CHECK_INTERVAL) at the end of a cycle
Sleep ==
    /\ pc = "sleep"
    /\ NewIteration

\* A handler that would let the exception end the process instead.
CooldownEndsService ==
    /\ pc = "cooldown"
    /\ pc' = "exited"
    /\ exit_status' = [code |-> 1, by |-> "error", at |-> pc]
    /\ UNCHANGED <<variant, cycleVars, ledgerVars, candVars, diskVars,
                   engineVars, retry, faults, faulty, apiVars, uploaderVars,
                   fb_pages_file>>

\* except Exception at the top of the cycle loop: time.sleep(300)
Cooldown ==
    /\ pc = "cooldown"
    /\ NewIteration

Next ==
    \/ Discover \/ ForHead \/ GetDetails \/ Download \/ FormatDecision
    \/ UploadStart \/ UploadToPage \/ Record
    \/ Sleep \/ Cooldown

Spec == Init /\ [][Next]_vars

\* ------------------------------------------------- the whole service
\* main() from its first line: the page configuration is loaded, then the
\* cycle loop runs until a KeyboardInterrupt ends the process.
ConfigKinds ==
    {"valid", "absent", "not_list", "empty",
     "no_page_id", "no_access_token", "no_page_name"}

\* FacebookPageManager.load_pages raises, or main() finds the list empty.
\* 20detik.py does not look at the keys of the entries.
LoadPagesFails(v, file) ==
    IF v = "main" THEN file # "valid"
    ELSE file \in {"absent", "not_list", "empty"}

InitService ==
    /\ variant \in {"main", "20detik"}
    /\ pc = "startup"
    /\ fb_pages_file \in ConfigKinds
    /\ cycle = 0
    /\ data_file = [kind |-> "missing", records |-> <<>>]
    /\ posted_videos = LoadPostedVideos(data_file)
    /\ video_links = {}
    /\ remaining = {}
    /\ new_videos = 0
    /\ link = 0
    /\ details = NoDetails
    /\ video_hash = EmptyStr
    /\ original_path = NoFile
    /\ video_path = NoFile
    /\ is_reel = FALSE
    /\ disk = {}
    /\ created = {}
    /\ page_idx = 0
    /\ upload_results = <<>>
    /\ calls = <<>>
    /\ attempted = <<>>
    /\ cycle_base = Len(posted_videos)
    /\ all_published = TRUE
    /\ retry = {}
    /\ faults = 0
    /\ faulty = FALSE
    /\ arg = NoCall
    /\ ret = PyNone
    /\ before = <<>>
    /\ api_calls = 0
    /\ window_calls = 0
    /\ attempts = 0
    /\ video_id = 0
    /\ remote_status = "none"
    /\ since_reset = "under"
    /\ exit_status = NotExited

\* The positions inside the try block of the cycle loop.
LoopPcs ==
    {"discover", "for_head", "details", "download", "format", "upload_start",
     "page", "record", "sleep"}

\* fb_pages = FacebookPageManager.load_pages(); on failure main() prints the
\* error and returns, and the interpreter exits with status 0.
StartUp ==
    /\ pc = "startup"
    /\ IF LoadPagesFails(variant, fb_pages_file)
       THEN /\ pc' = "exited"
            /\ exit_status' = [code |-> 0, by |-> "config", at |-> pc]
       ELSE /\ pc' = "discover"
            /\ UNCHANGED exit_status
    /\ UNCHANGED <<variant, cycleVars, ledgerVars, candVars, diskVars,
                   engineVars, retry, faults, faulty, apiVars, uploaderVars,
                   fb_pages_file>>

\* KeyboardInterrupt.  Inside the try block of the loop it is caught by
\* `except KeyboardInterrupt: break` and main() returns: status 0.  During
\* start-up and during the time.sleep(300) of the except clause nothing
\* catches it (the outer clause is `except Exception`): the interpreter ends
\* with a traceback and a non-zero status.  Nothing is cleaned up on the
\* way; the locals of main() are gone with the process.
Interrupt ==
    /\ pc \in LoopPcs \cup {"startup", "cooldown"}
    /\ pc' = "exited"
    /\ exit_status' = [code |-> IF pc \in LoopPcs THEN 0 ELSE 1,
                       by |-> "interrupt", at |-> pc]
    /\ link' = 0
    /\ FreshCandidate
    /\ video_links' = {}
    /\ remaining' = {}
    /\ new_videos' = 0
    /\ cycle_base' = Len(posted_videos)
    /\ all_published' = TRUE
    /\ retry' = {}
    /\ faulty' = FALSE
    /\ UNCHANGED <<variant, cycle, ledgerVars, diskVars, faults, apiVars,
                   uploaderVars, fb_pages_file>>

NextService == StartUp \/ Interrupt \/ Next

SpecService == InitService /\ [][NextService]_vars

\* The process keeps running: a step of the program that can be taken is
\* taken (every sleep ends); nothing obliges a KeyboardInterrupt to arrive.
SpecServiceLive == SpecService /\ WF_vars(StartUp) /\ WF_vars(Next)

\* ------------------------------------------- the ledger, called directly
\* The two VideoManager methods taken as functions of the ledger and their
\* arguments: the ledger is what load_posted_videos read from a file of at
\* most MaxLedger records, the arguments range over a few URLs and hashes.
ApiUrls == (NumLinks + 1)..(NumLinks + NumApiUrls)
ApiHashes == {EmptyStr} \cup {<<h>> : h \in 1..NumApiHashes}

\* Records as 20detik.py writes them (no 'hash' key) and as main.py does.
PlainRecords == {[source_url |-> u] : u \in ApiUrls}
HashedRecords == {[source_url |-> u, hash |-> h] : u \in ApiUrls, h \in ApiHashes}

\* posted_videos.json is shared by the two scripts.
StoredLedgers == UNION {[1..n -> PlainRecords \cup HashedRecords] : n \in 0..MaxLedger}

\* What each script hands to its add_posted_video.
ApiRecords(v) == IF v = "main" THEN PlainRecords \cup HashedRecords ELSE PlainRecords

\* Whatever posted_videos.json may hold besides: no file, a zero-byte file,
\* a file that is not JSON, a JSON list with an element that is no object.
AnyLedgers ==
    UNION {[1..n -> PlainRecords \cup HashedRecords \cup {JsonNumber}] :
               n \in 0..MaxLedger}
AnyFiles ==
    {[kind |-> k, records |-> <<>>] : k \in {"missing", "empty", "garbage"}}
    \cup {[kind |-> "list", records |-> l] : l \in AnyLedgers}

InitLedgerWith(files) ==
    /\ variant \in {"main", "20detik"}
    /\ pc = "api"
    /\ cycle = 0
    /\ data_file \in files
    /\ posted_videos = LoadPostedVideos(data_file)
    /\ video_links = {}
    /\ remaining = {}
    /\ new_videos = 0
    /\ link = 0
    /\ details = NoDetails
    /\ video_hash = EmptyStr
    /\ original_path = NoFile
    /\ video_path = NoFile
    /\ is_reel = FALSE
    /\ disk = {}
    /\ created = {}
    /\ page_idx = 0
    /\ upload_results = <<>>
    /\ calls = <<>>
    /\ attempted = <<>>
    /\ cycle_base = Len(posted_videos)
    /\ all_published = TRUE
    /\ retry = {}
    /\ faults = 0
    /\ faulty = FALSE
    /\ arg = NoCall
    /\ ret = PyNone
    /\ before = <<>>
    /\ api_calls = 0
    /\ window_calls = 0
    /\ attempts = 0
    /\ video_id = 0
    /\ remote_status = "none"
    /\ since_reset = "under"
    /\ fb_pages_file = "valid"
    /\ exit_status = NotExited

\* VideoManager() with a file the scripts have written themselves.
InitLedger == InitLedgerWith({SavePostedVideos(l) : l \in StoredLedgers})

\* VideoManager() with any file.
InitLedgerAny == InitLedgerWith(AnyFiles)

\* VideoManager() with a file of at most one record the scripts have written.
InitLedgerWrites ==
    InitLedgerWith({SavePostedVideos(l) : l \in {s \in StoredLedgers : Len(s) <= 1}})

\* video_manager.add_posted_video(video_details): the test, the append, and
\* the write with its outcome, one of `writes` ("none": nothing was to be
\* written).  When is_video_posted raises, the exception leaves the method
\* (pc = "raised") and nothing is appended.
AddPostedVideoWith(writes) ==
    /\ Len(posted_videos) <= MaxLedger
    /\ \E rec \in ApiRecords(variant), write \in writes :
        LET h == GetOr(rec, "hash", EmptyStr)
            known == IsVideoPosted(variant, DictPrefix(posted_videos),
                                   rec.source_url, h)
            raises == IsVideoPostedRaises(variant, posted_videos,
                                          rec.source_url, h)
        IN /\ write = "none" <=> (known \/ raises)
           /\ arg' = [op |-> "add", video_details |-> rec, write |-> write]
           /\ IF known \/ raises
              THEN UNCHANGED ledgerVars
              ELSE /\ posted_videos' = AddPostedVideo(variant, posted_videos, rec)
                   /\ data_file' = WrittenFile(posted_videos', write, data_file)
           /\ pc' = IF raises THEN "raised" ELSE pc
    /\ before' = posted_videos
    /\ ret' = PyNone
    /\ UNCHANGED <<variant, cycleVars, candVars, diskVars, engineVars,
                   retry, faults, faulty, uploaderVars, serviceVars>>

\* add_posted_video whose write, if there is one, succeeds
AddPostedVideoCall ==
    /\ pc = "api"
    /\ AddPostedVideoWith({"ok", "none"})

\* add_posted_video whose write fails
AddPostedVideoWriteFails ==
    /\ pc = "api"
    /\ AddPostedVideoWith(WriteOutcomes \ {"ok"})

\* video_manager.is_video_posted(video_url, video_hash); 20detik.py's
\* method takes the URL only.
IsVideoPostedCall ==
    /\ pc = "api"
    /\ \E u \in ApiUrls, h \in ApiHashes :
        /\ variant = "20detik" => h = EmptyStr
        /\ arg' = [op |-> "query", video_url |-> u, video_hash |-> h]
        /\ ret' = IsVideoPosted(variant, DictPrefix(posted_videos), u, h)
        /\ pc' = IF IsVideoPostedRaises(variant, posted_videos, u, h)
                 THEN "raised" ELSE pc
    /\ before' = posted_videos
    /\ UNCHANGED <<variant, cycleVars, ledgerVars, candVars, diskVars,
                   engineVars, retry, faults, faulty, uploaderVars, serviceVars>>

NextLedger == AddPostedVideoCall \/ IsVideoPostedCall

SpecLedger == InitLedger /\ [][NextLedger]_vars

SpecLedgerAny == InitLedgerAny /\ [][NextLedger]_vars

NextLedgerWrites ==
    AddPostedVideoCall \/ AddPostedVideoWriteFails \/ IsVideoPostedCall

SpecLedgerWrites == InitLedgerWrites /\ [][NextLedgerWrites]_vars

\* ------------------------------------------ the scraper, called directly
\* DetikScraper.get_video_details and _extract_video_url as functions of
\* the page they are given.  A page is what the code looks at in it: the
\* first JSON-LD script, what each regular expression matches, the text of
\* the duration element, and whether a title element exists.  A locator is
\* [rel, id]: rel says that the text begins with // (protocol-relative),
\* id tells the locators of a page apart.
Url(rel, id) == [rel |-> rel, id |-> id]

\* The first <script type="application/ld+json"> of the page: none; text
\* that is not JSON; a JSON array; an object of another @type; a
\* VideoObject without contentUrl; a VideoObject with contentUrl.
JsonLdScripts ==
    {[kind |-> k, url |-> Url(FALSE, 0)] :
         k \in {"none", "invalid", "array", "other", "no_url"}}
    \cup {[kind |-> "url", url |-> Url(rel, 1)] : rel \in BOOLEAN}

\* What videoUrl: "....m3u8" captures (anything up to .m3u8), what the
\* <meta content="http(s)://....mp4"> pattern captures, and what main.py's
\* src: "http(s)://....mp4" pattern captures; <<>> when there is no match.
StreamMatches == {<<>>} \cup {<<Url(rel, 2)>> : rel \in BOOLEAN}
MetaMatches == {<<>>, <<Url(FALSE, 3)>>}
SrcMatches == {<<>>, <<Url(FALSE, 4)>>}

\* The text of div.media__icon--top-right: no such element, "45 detik",
\* "1:05", "1 menit 5 detik", "1:0x", "LIVE".
DurationTexts ==
    {[form |-> "absent"],
     [form |-> "seconds", n |-> 45],
     [form |-> "mmss", m |-> 1, s |-> 5],
     [form |-> "detik_not_int"],
     [form |-> "colon_not_int"],
     [form |-> "other"]}

Pages ==
    [ld : JsonLdScripts, stream : StreamMatches, meta : MetaMatches,
     src : SrcMatches, dur : DurationTexts, title : BOOLEAN]

\* url.startswith('//') => 'https:' + url
Normalize(url) == Url(FALSE, url.id)

\* `for pattern in patterns`: the first pattern that matches gives the
\* result; main.py has a third pattern and prefixes https: to a match that
\* begins with //, 20detik.py returns the match as it is.
FirstPattern(v, page) ==
    IF page.stream # <<>>
    THEN (IF v = "main" THEN <<Normalize(page.stream[1])>> ELSE page.stream)
    ELSE IF page.meta # <<>> THEN page.meta
    ELSE IF v = "main" /\ page.src # <<>> THEN page.src
    ELSE PyNone

\* _extract_video_url: <<url>> or PyNone.  A VideoObject ends the search
\* with json_data.get("contentUrl"), None when the key is missing.  Text
\* that is not JSON is passed over in main.py and raises in 20detik.py; a
\* JSON array has no method get; both exceptions end in `return None`.
ExtractVideoUrl(v, page) ==
    IF page.ld.kind = "url" THEN <<page.ld.url>>
    ELSE IF page.ld.kind = "no_url" THEN PyNone
    ELSE IF page.ld.kind = "array" THEN PyNone
    ELSE IF page.ld.kind = "invalid" /\ v = "20detik" THEN PyNone
    ELSE FirstPattern(v, page)

\* The duration block of get_video_details: [raised, value].  int() raises
\* ValueError on text that is no integer.
ParseDuration(text) ==
    IF text.form = "seconds" THEN [raised |-> FALSE, value |-> text.n]
    ELSE IF text.form = "mmss"
    THEN [raised |-> FALSE, value |-> text.m * 60 + text.s]
    ELSE IF text.form \in {"detik_not_int", "colon_not_int"}
    THEN [raised |-> TRUE, value |-> 0]
    ELSE [raised |-> FALSE, value |-> 0]

\* get_video_details: <<details>> or PyNone.  Any exception is caught and
\* gives None; 20detik.py calls get_text on the title element without
\* testing that there is one.
GetVideoDetails(v, page) ==
    IF v = "20detik" /\ ~page.title THEN PyNone
    ELSE IF ParseDuration(page.dur).raised THEN PyNone
    ELSE IF ExtractVideoUrl(v, page) = PyNone THEN PyNone
    ELSE <<[source_url |-> ExtractVideoUrl(v, page)[1],
            duration |-> ParseDuration(page.dur).value]>>

\* The methods keep no state between calls: one call is made on a page.
InitScraper == InitLedgerWith({[kind |-> "missing", records |-> <<>>]})

\* scraper._extract_video_url(html_content)
ExtractVideoUrlCall ==
    /\ pc = "api"
    /\ \E page \in Pages :
        /\ arg' = [op |-> "extract", page |-> page]
        /\ ret' = ExtractVideoUrl(variant, page)
    /\ pc' = "returned"
    /\ UNCHANGED <<variant, cycleVars, ledgerVars, candVars, diskVars,
                   engineVars, retry, faults, faulty, before, uploaderVars,
                   serviceVars>>

\* scraper.get_video_details(video_url)
GetVideoDetailsCall ==
    /\ pc = "api"
    /\ \E page \in Pages :
        /\ arg' = [op |-> "details", page |-> page]
        /\ ret' = GetVideoDetails(variant, page)
    /\ pc' = "returned"
    /\ UNCHANGED <<variant, cycleVars, ledgerVars, candVars, diskVars,
                   engineVars, retry, faults, faulty, before, uploaderVars,
                   serviceVars>>

NextScraper == ExtractVideoUrlCall \/ GetVideoDetailsCall

SpecScraper == InitScraper /\ [][NextScraper]_vars

\* --------------------------------------- the uploader, phase by phase
\* The publish attempts for one account (page 1), one after the other, each
\* by a FacebookUploader constructed for it (main.py: upload_to_all_pages
\* constructs one per page and call; 20detik.py: the loop over fb_pages),
\* with every remote call a step of its own.
InitUploader ==
    /\ variant \in {"main", "20detik"}
    /\ pc = "up_idle"
    /\ cycle = 0
    /\ data_file = [kind |-> "missing", records |-> <<>>]
    /\ posted_videos = LoadPostedVideos(data_file)
    /\ video_links = {}
    /\ remaining = {}
    /\ new_videos = 0
    /\ link = 0
    /\ details = NoDetails
    /\ video_hash = EmptyStr
    /\ original_path = NoFile
    /\ video_path = NoFile
    /\ is_reel = FALSE
    /\ disk = {}
    /\ created = {}
    /\ page_idx = 1
    /\ upload_results = <<>>
    /\ calls = <<>>
    /\ attempted = <<>>
    /\ cycle_base = 0
    /\ all_published = TRUE
    /\ retry = {}
    /\ faults = 0
    /\ faulty = FALSE
    /\ arg = NoCall
    /\ ret = PyNone
    /\ before = <<>>
    /\ api_calls = 0
    /\ window_calls = 0
    /\ attempts = 0
    /\ video_id = 0
    /\ remote_status = "none"
    /\ since_reset = "under"
    /\ fb_pages_file = "valid"
    /\ exit_status = NotExited

UploaderPcs == {"up_idle", "up_token", "up_start", "up_transfer", "up_finish", "up_video"}

\* What no step of the uploader touches.
uploaderFrame ==
    <<variant, cycleVars, ledgerVars, link, details, video_hash, original_path,
      video_path, diskVars, page_idx, attempted, retry, faults, faulty, arg,
      before, since_reset, serviceVars>>

\* The ceiling test with > for >=: one call more goes out.
AtCeilingLate(n) == n > MAX_API_CALLS

\* if self.api_calls >= self.max_api_calls
AtCeiling(n) == n >= MAX_API_CALLS

\* make_api_call (main.py): at the ceiling it returns None and sends nothing.
\* 20detik.py calls session.post directly.
UploaderRefuses == variant = "main" /\ AtCeiling(api_calls)

\* A request goes out: one more call counted by the uploader (main.py) and
\* one more call made for the account in the current hour.
RemoteCall(op, ok) ==
    /\ calls' = Append(calls, Call(page_idx, op, ok))
    /\ window_calls' = window_calls + 1
    /\ api_calls' = IF variant = "main" THEN api_calls + 1 ELSE api_calls

NoRemoteCall == UNCHANGED <<calls, window_calls, api_calls>>

\* The attempt is over and returned `post_id`: <<id>>, or PyNone; `reason`
\* is the error main.py puts in the result.
AttemptEnds(post_id, reason) ==
    /\ ret' = post_id
    /\ upload_results' =
          IF post_id # PyNone
          THEN <<SuccessResult(variant, page_idx, post_id[1], is_reel)>>
          ELSE IF variant = "main" THEN <<FailedResult(page_idx, reason)>>
          ELSE <<>>

\* _upload_reel going on to the next phase whatever the phase answered.
ReelPhaseAfterAnyway(phase, ok) ==
    IF phase = "up_start" THEN "up_transfer"
    ELSE IF phase = "up_transfer" THEN "up_finish"
    ELSE "up_idle"

\* Where _upload_reel goes after a phase: on, when the phase succeeded, and
\* out (return None) when it did not.
ReelPhaseAfter(phase, ok) ==
    IF ~ok THEN "up_idle"
    ELSE IF phase = "up_start" THEN "up_transfer"
    ELSE IF phase = "up_transfer" THEN "up_finish"
    ELSE "up_idle"

\* uploader = FacebookUploader(page): api_calls = 0
UploaderBegin ==
    /\ pc = "up_idle"
    /\ attempts < MaxAttempts
    /\ \E reel \in BOOLEAN :
        /\ is_reel' = reel
        /\ pc' = IF variant = "main" THEN "up_token"
                 ELSE IF reel THEN "up_start" ELSE "up_video"
    /\ attempts' = attempts + 1
    /\ api_calls' = 0
    /\ calls' = <<>>
    /\ ret' = PyNone
    /\ video_id' = 0
    /\ remote_status' = "none"
    /\ upload_results' = <<>>
    /\ UNCHANGED <<window_calls, uploaderFrame>>

\* More than an hour passes: the calls made so far are out of the rolling
\* hour, and make_api_call will find last_reset more than 3600 s back.
HourPasses ==
    /\ pc \in UploaderPcs
    /\ window_calls > 0
    /\ window_calls' = 0
    /\ api_calls' = 0
    /\ UNCHANGED <<pc, is_reel, calls, ret, upload_results, attempts, video_id,
                   remote_status, uploaderFrame>>

\* The remote service finishes processing a Reel it accepted.
RemoteProcessingDone ==
    /\ pc \in UploaderPcs
    /\ remote_status = "processing"
    /\ remote_status' = "ready"
    /\ UNCHANGED <<pc, is_reel, calls, ret, upload_results, attempts, video_id,
                   api_calls, window_calls, uploaderFrame>>

\* main.py: if not uploader.validate_token(): failed, continue
ValidateToken ==
    /\ pc = "up_token"
    /\ \E ok \in BOOLEAN :
        IF UploaderRefuses \/ ~ok
        THEN /\ ~ok
             /\ IF UploaderRefuses THEN NoRemoteCall
                ELSE RemoteCall("validate", FALSE)
             /\ AttemptEnds(PyNone, "Invalid access token")
             /\ pc' = "up_idle"
        ELSE /\ RemoteCall("validate", TRUE)
             /\ pc' = IF is_reel THEN "up_start" ELSE "up_video"
             /\ UNCHANGED <<ret, upload_results>>
    /\ UNCHANGED <<is_reel, attempts, video_id, remote_status, uploaderFrame>>

\* _upload_reel, upload_phase start: the response must carry a video_id.
ReelStart ==
    /\ pc = "up_start"
    /\ \E out \in {"id", "no_id", "error"}, id \in RemoteIds :
        /\ UploaderRefuses => out = "error"
        /\ IF UploaderRefuses THEN NoRemoteCall
           ELSE RemoteCall("start", out # "error")
        /\ video_id' = IF out = "id" THEN id ELSE 0
        /\ pc' = ReelPhaseAfter(pc, out = "id")
        /\ IF ReelPhaseAfter(pc, out = "id") = "up_idle"
           THEN AttemptEnds(PyNone, "Upload returned no post ID")
           ELSE UNCHANGED <<ret, upload_results>>
    /\ UNCHANGED <<is_reel, attempts, remote_status, uploaderFrame>>

\* _upload_reel: the POST of the file to rupload.facebook.com
ReelTransfer ==
    /\ pc = "up_transfer"
    /\ \E ok \in BOOLEAN :
        /\ UploaderRefuses => ~ok
        /\ IF UploaderRefuses THEN NoRemoteCall
           ELSE RemoteCall("transfer", ok)
        /\ pc' = ReelPhaseAfter(pc, ok)
        /\ IF ReelPhaseAfter(pc, ok) = "up_idle"
           THEN AttemptEnds(PyNone, "Upload returned no post ID")
           ELSE UNCHANGED <<ret, upload_results>>
    /\ UNCHANGED <<is_reel, attempts, video_id, remote_status, uploaderFrame>>

\* _upload_reel, upload_phase finish, then `return video_id`
ReelFinish ==
    /\ pc = "up_finish"
    /\ \E ok \in BOOLEAN :
        /\ UploaderRefuses => ~ok
        /\ IF UploaderRefuses THEN NoRemoteCall
           ELSE RemoteCall("finish", ok)
        /\ pc' = ReelPhaseAfter(pc, ok)
        /\ IF ok
           THEN /\ AttemptEnds(<<video_id>>, "")
                /\ remote_status' = "processing"
           ELSE /\ AttemptEnds(PyNone, "Upload returned no post ID")
                /\ UNCHANGED remote_status
    /\ UNCHANGED <<is_reel, attempts, video_id, uploaderFrame>>

\* _upload_regular_video: one POST, then the id of the response
RegularUpload ==
    /\ pc = "up_video"
    /\ \E out \in {"id", "no_id", "error"}, id \in RemoteIds :
        /\ UploaderRefuses => out = "error"
        /\ IF UploaderRefuses THEN NoRemoteCall
           ELSE RemoteCall("video", out # "error")
        /\ IF out = "id"
           THEN AttemptEnds(<<id>>, "")
           ELSE AttemptEnds(PyNone, "Upload returned no post ID")
    /\ pc' = "up_idle"
    /\ UNCHANGED <<is_reel, attempts, video_id, remote_status, uploaderFrame>>

NextUploader ==
    \/ UploaderBegin \/ HourPasses \/ RemoteProcessingDone
    \/ ValidateToken \/ ReelStart \/ ReelTransfer \/ ReelFinish
    \/ RegularUpload

SpecUploader == InitUploader /\ [][NextUploader]_vars


\* ------------------------------------- one uploader, call after call
\* make_api_call called again and again on one FacebookUploader of
\* main.py, with time passing between the calls.  window_calls counts the
\* requests sent since the counter was last reset; arg records the counter
\* and the age of last_reset that the call found, and whether it sent a
\* request; ret is <<1>> for a response and PyNone for None.
InitLimiter ==
    /\ InitUploader
    /\ variant = "main"

\* if time.time() - self.last_reset > 3600
ResetDue(since) == since = "over"

\* Time passes: the age of last_reset goes from under 3600 s to exactly
\* 3600 s or beyond.
TimePasses ==
    /\ pc = "up_idle"
    /\ since_reset # "over"
    /\ since_reset' \in IF since_reset = "under" THEN {"at", "over"} ELSE {"over"}
    /\ UNCHANGED <<variant, pc, cycleVars, ledgerVars, candVars, diskVars,
                   engineVars, retry, faults, faulty, apiVars, api_calls,
                   window_calls, attempts, video_id, remote_status,
                   serviceVars>>

\* response = self.make_api_call(url, ...): the reset when it is due, the
\* ceiling test, the increment, and the request, which may raise (None).
MakeApiCall ==
    /\ pc = "up_idle"
    /\ \E answered \in BOOLEAN :
        LET counted == IF ResetDue(since_reset) THEN 0 ELSE api_calls
            refused == AtCeiling(counted)
        IN /\ refused => ~answered
           /\ api_calls' = IF refused THEN counted ELSE counted + 1
           /\ window_calls' =
                 (IF ResetDue(since_reset) THEN 0 ELSE window_calls)
                 + (IF refused THEN 0 ELSE 1)
           /\ ret' = IF answered THEN <<1>> ELSE PyNone
           /\ arg' = [op |-> "make_api_call", api_calls |-> api_calls,
                      since |-> since_reset, sent |-> ~refused]
    /\ since_reset' = IF ResetDue(since_reset) THEN "under" ELSE since_reset
    /\ UNCHANGED <<variant, pc, cycleVars, ledgerVars, candVars, diskVars,
                   engineVars, retry, faults, faulty, before, attempts,
                   video_id, remote_status, serviceVars>>

NextLimiter == MakeApiCall \/ TimePasses

SpecLimiter == InitLimiter /\ [][NextLimiter]_vars
\* ====================================================== the properties

\* The remote calls that publish (the token check does not).
PublishOps == {"start", "transfer", "finish", "video"}

\* The steps of the cycle loop at which a candidate is being processed.
CandidatePcs == {"details", "download", "format", "upload_start", "page", "record"}

\* C1: once a video is in the ledger, a candidate with the same source_url
\* (in main.py also: the same content hash) causes no publish call: whenever
\* a publish call has been made for the current candidate, no record of the
\* ledger has the candidate's source_url or, in main.py, its hash.
NoPublishForRecordedVideo ==
    (\E k \in 1..Len(calls) : calls[k].op \in PublishOps)
    => \A i \in 1..Len(posted_videos) :
          /\ posted_videos[i].source_url # details.source_url
          /\ (variant = "main" /\ "hash" \in DOMAIN posted_videos[i])
             => posted_videos[i].hash # video_hash

\* C2: when a candidate completes, a record for it is appended to the
\* ledger if and only if at least one account returned a post id; when
\* every account failed (or none was tried) the ledger is unchanged.
RecordedIffPublished ==
    [][(pc \in CandidatePcs /\ pc' \notin CandidatePcs)
       => IF \E i \in 1..Len(upload_results) : "post_id" \in DOMAIN upload_results[i]
          THEN /\ Len(posted_videos') = Len(posted_videos) + 1
               /\ SubSeq(posted_videos', 1, Len(posted_videos)) = posted_videos
               /\ posted_videos'[Len(posted_videos')].source_url = details.source_url
          ELSE posted_videos' = posted_videos]_vars

\* C3: add_posted_video is idempotent: adding a record whose source_url or
\* content hash equals that of an entry of the ledger leaves the ledger
\* unchanged; adding the same record once more changes nothing; and a
\* record that was appended is in the ledger exactly once, as its last entry.
AddPostedVideoIdempotent ==
    arg.op = "add" =>
        LET r == arg.video_details
            same(e) == \/ e.source_url = r.source_url
                       \/ /\ "hash" \in DOMAIN r
                          /\ "hash" \in DOMAIN e
                          /\ e.hash = r.hash
            known == \E i \in 1..Len(before) : same(before[i])
        IN /\ known => posted_videos = before
           /\ AddPostedVideo(variant, posted_videos, r) = posted_videos
           /\ posted_videos # before =>
                /\ posted_videos = Append(before, r)
                /\ Cardinality({i \in 1..Len(posted_videos) : posted_videos[i] = r}) = 1

\* C3 witness: main.py's add_posted_video was called with a record whose URL
\* is new and whose hash is that of an entry, and the ledger is as before.
AddSkippedByHash ==
    /\ variant = "main"
    /\ arg.op = "add"
    /\ posted_videos = before
    /\ "hash" \in DOMAIN arg.video_details
    /\ \A i \in 1..Len(before) : before[i].source_url # arg.video_details.source_url
    /\ \E i \in 1..Len(before) :
          "hash" \in DOMAIN before[i] /\ before[i].hash = arg.video_details.hash

\* C4: is_video_posted(url, hash) is true exactly when a record has that
\* source_url, or a hash was supplied (not "") and a record has that hash;
\* with "" no record is matched through its hash, whatever the records hold.
IsVideoPostedExact ==
    (variant = "main" /\ arg.op = "query") =>
        (ret <=> \E i \in 1..Len(posted_videos) :
                    \/ posted_videos[i].source_url = arg.video_url
                    \/ /\ arg.video_hash # EmptyStr
                       /\ "hash" \in DOMAIN posted_videos[i]
                       /\ posted_videos[i].hash = arg.video_hash)

\* C5: the ledger is append-only: in every step the ledger before is a
\* prefix of the ledger after, in memory and in the file, so no record is
\* removed or reordered and no field of an appended record changes.
LedgerAppendOnly ==
    [][/\ Len(posted_videos') >= Len(posted_videos)
       /\ SubSeq(posted_videos', 1, Len(posted_videos)) = posted_videos
       /\ Len(LoadPostedVideos(data_file')) >= Len(LoadPostedVideos(data_file))
       /\ SubSeq(LoadPostedVideos(data_file'), 1, Len(LoadPostedVideos(data_file)))
              = LoadPostedVideos(data_file)]_vars

\* C5 witness: a record was appended in this cycle behind older records.
LedgerGrewBehindOlder ==
    /\ pc = "for_head"
    /\ cycle_base > 0
    /\ Len(posted_videos) > cycle_base
    /\ LoadPostedVideos(data_file) = posted_videos

\* C6: when the processing of a candidate is over (published, failed on
\* every page, skipped after the download, or left by an exception after
\* the download) no file created for it is still on disk.
NoAssetLeftBehind ==
    pc \in {"for_head", "sleep", "cooldown"} => created \cap disk = {}

\* C7: main.py publishes at most MAX_UPLOADS_PER_CYCLE videos in a cycle, and
\* exactly that many when at least that many of the discovered candidates
\* were not in the ledger when the cycle began and every candidate taken
\* was published or skipped as already posted.
UploadCapPerCycle ==
    variant = "main" =>
        LET eligible ==
                {l \in video_links :
                    \A i \in 1..cycle_base :
                        /\ posted_videos[i].source_url # MediaOf(l)
                        /\ "hash" \in DOMAIN posted_videos[i]
                           => posted_videos[i].hash # HashOf(MediaOf(l))}
        IN /\ new_videos <= MAX_UPLOADS_PER_CYCLE
           /\ Len(posted_videos) - cycle_base <= MAX_UPLOADS_PER_CYCLE
           /\ (pc = "sleep" /\ all_published
                 /\ Cardinality(eligible) >= MAX_UPLOADS_PER_CYCLE)
              => /\ new_videos = MAX_UPLOADS_PER_CYCLE
                 /\ Len(posted_videos) - cycle_base = MAX_UPLOADS_PER_CYCLE

\* C7 witness: main.py ended a cycle at the cap with a candidate left over.
CapEndedCycle ==
    /\ variant = "main"
    /\ pc = "sleep"
    /\ all_published
    /\ new_videos = MAX_UPLOADS_PER_CYCLE
    /\ Len(posted_videos) - cycle_base = MAX_UPLOADS_PER_CYCLE
    /\ remaining # {}

\* C8: a candidate that was not published (the cap was reached, or every
\* account failed) is recorded nowhere: the step that leaves it behind
\* changes neither the ledger nor its file; and when the loop next comes to
\* it with the cap not reached, its processing starts again.
UnpublishedIsRetried ==
    [][/\ retry' \ retry # {}
          => (posted_videos' = posted_videos /\ data_file' = data_file)
       /\ (/\ pc = "for_head"
           /\ remaining # {}
           /\ NextLink(remaining) \in retry
           /\ variant = "main" => new_videos < MAX_UPLOADS_PER_CYCLE)
          => (pc' = "details" /\ link' = NextLink(remaining))]_vars

\* C8 witness: a later cycle is processing a link that an earlier cycle
\* left unpublished.
RetryUnderWay ==
    /\ pc = "details"
    /\ link \in retry
    /\ cycle > 1

\* C9: for one candidate every configured account is attempted exactly once,
\* in configuration order, and yields exactly one result entry, whatever
\* the outcome of the accounts before it.
OneResultPerAccount ==
    pc = "record" =>
        /\ attempted = [i \in 1..NumPages |-> i]
        /\ Len(upload_results) = NumPages
        /\ \A i \in 1..Len(upload_results) : upload_results[i].page = i

\* C10: in main.py, when the token check of an account does not answer
\* valid, the attempt for that account is a failure with the reason
\* "Invalid access token", and no start, transfer, finish or video call is
\* made for that account.
InvalidTokenSkipsUpload ==
    (/\ variant = "main"
     /\ calls # <<>>
     /\ calls[1].op = "validate"
     /\ ~calls[1].ok)
    => /\ \A k \in 1..Len(calls) : calls[k].op \notin PublishOps
       /\ upload_results # <<>>
       /\ LET r == upload_results[Len(upload_results)]
          IN /\ r.page = calls[1].page
             /\ r.status = "failed"
             /\ r.error = "Invalid access token"

\* C10 witness: the first account's token was rejected and the loop has
\* moved on to the next account.
TokenRejected ==
    /\ variant = "main"
    /\ pc = "page"
    /\ page_idx = 2
    /\ calls = <<[page |-> 1, op |-> "validate", ok |-> FALSE]>>

\* C11: within one Reel attempt the phases come in the order start,
\* transfer, finish: the transfer is issued only right after a start that
\* returned a video id, the finish only right after a transfer that
\* succeeded, and the attempt returns the video id only after a finish that
\* succeeded.
ReelPhasesInOrder ==
    /\ \A k \in 1..Len(calls) :
          /\ calls[k].op = "transfer"
             => (k > 1 /\ calls[k-1].op = "start" /\ calls[k-1].ok /\ video_id # 0)
          /\ calls[k].op = "finish"
             => (k > 1 /\ calls[k-1].op = "transfer" /\ calls[k-1].ok)
    /\ pc \in {"up_transfer", "up_finish"} => video_id # 0
    /\ (pc = "up_idle" /\ is_reel /\ ret # PyNone)
       => /\ calls # <<>>
          /\ calls[Len(calls)].op = "finish"
          /\ calls[Len(calls)].ok
          /\ video_id # 0
          /\ ret = <<video_id>>

\* C11 witness: a Reel attempt went through the three phases and returned
\* the video id.
ReelPublished ==
    /\ pc = "up_idle"
    /\ is_reel
    /\ ret = <<video_id>>
    /\ Len(calls) >= 3
    /\ calls[Len(calls)] = [page |-> 1, op |-> "finish", ok |-> TRUE]

\* C12: a Reel attempt reports success only once the remote service has
\* answered a status poll with ready: it is never reported successful while
\* the Reel is still processing.
ReelSuccessOnlyWhenReady ==
    (pc = "up_idle" /\ is_reel /\ ret # PyNone) => remote_status = "ready"

\* C13: the remote calls made for an account of main.py within one hour
\* never exceed max_api_calls.
CallsWithinCeiling ==
    variant = "main" => window_calls <= MAX_API_CALLS

\* C14: when an exception leaves the processing of a candidate and fewer
\* than MAX_RETRIES attempts have been made for it, the same candidate is
\* attempted again: it is still the current candidate after the step.  The
\* exceptions of the pipeline are the ones that end in the handler of the
\* cycle loop (20detik.py) and the failed reload of the page configuration
\* that the per-candidate handler of main.py catches; the code counts no
\* attempts, so each of them is the candidate's first.
ExceptionIsRetried ==
    [][(/\ link # 0
        /\ \/ pc' = "cooldown"
           \/ pc = "upload_start" /\ pc' = "for_head")
       => (1 < MAX_RETRIES => link' = link)]_vars

\* C15: when a KeyboardInterrupt arrives while a candidate is being
\* processed, the process ends with that candidate cleaned up: none of the
\* files made for it is left in the download directory.
InterruptedCandidateCleanedUp ==
    (/\ pc = "exited"
     /\ exit_status.by = "interrupt"
     /\ exit_status.at \in CandidatePcs)
    => created \cap disk = {}

\* C16: once the cycle loop is running, only a KeyboardInterrupt ends the
\* process; the handler at the top of the loop leads, after its sleep, to
\* the top of the loop and nowhere else; and as long as no interrupt ends
\* the process, every cycle is followed by the start of the next one (up to
\* the MaxCycles cycles that are explored).
ServiceKeepsCycling ==
    /\ [](pc = "exited" => (exit_status.by = "interrupt" \/ exit_status.at = "startup"))
    /\ [][pc = "cooldown" => pc' \in {"discover", "exited"}]_vars
    /\ [](pc \in LoopPcs \cup {"cooldown"}
          => <>(pc \in {"discover", "exited"}))
    /\ \A n \in 0..(MaxCycles - 1) :
          (cycle = n /\ pc \in LoopPcs \cup {"cooldown"})
          ~> (cycle = n + 1 \/ pc = "exited")

\* C16 witness: an exception has reached the handler at the top of the
\* cycle loop in the first cycle, and the process is still running.
ExceptionReachedLoopHandler ==
    /\ pc = "cooldown"
    /\ cycle = 1
    /\ exit_status = NotExited

\* C19: with a page configuration that is absent, is not a list, or has an
\* entry without page_id, access_token or page_name, the pipeline never
\* starts: no listing is fetched, nothing is downloaded, no remote call is
\* made.
BadConfigStopsBeforePipeline ==
    fb_pages_file \in {"absent", "not_list", "no_page_id", "no_access_token",
                       "no_page_name"}
    => /\ cycle = 0
       /\ disk = {}
       /\ calls = <<>>

\* C20: the process exits with status 0 exactly when it was shut down by a
\* KeyboardInterrupt: a shutdown from inside the cycle loop gives 0, a
\* failure to load the page configuration gives a non-zero status, and
\* nothing but an interrupt gives 0.
ExitStatusTellsOutcome ==
    pc = "exited"
    => /\ (exit_status.by = "interrupt" /\ exit_status.at \in LoopPcs)
          => exit_status.code = 0
       /\ exit_status.by = "config" => exit_status.code # 0
       /\ exit_status.code = 0 => exit_status.by = "interrupt"

\* C17: an append whose write failed has still put the record into the
\* in-memory ledger, where it answers later queries, and the call returned
\* without an exception; whenever the write of an append succeeds the file
\* holds exactly the in-memory ledger; and when the write of one append
\* failed and that of the next one succeeds, the file holds the record whose
\* write had failed.
FailedWriteIsMadeUpFor ==
    /\ []((arg.op = "add" /\ arg.write \in {"open_failed", "dump_failed"})
          => /\ pc = "api"
             /\ posted_videos = Append(before, arg.video_details)
             /\ IsVideoPosted(variant, posted_videos,
                              arg.video_details.source_url,
                              GetOr(arg.video_details, "hash", EmptyStr)))
    /\ []((arg.op = "add" /\ arg.write = "ok")
          => LoadPostedVideos(data_file) = posted_videos)
    /\ [][(/\ arg.op = "add"
           /\ arg.write \in {"open_failed", "dump_failed"}
           /\ arg'.op = "add"
           /\ arg'.write = "ok")
          => /\ LoadPostedVideos(data_file') = posted_videos'
             /\ \E i \in 1..Len(LoadPostedVideos(data_file')) :
                   LoadPostedVideos(data_file')[i] = arg.video_details]_vars

\* C17 witness: the write of an append failed after the file was
\* truncated: the file is unparseable and the in-memory ledger holds the
\* older record and the new one.
FailedWriteKeptInMemory ==
    /\ arg.op = "add"
    /\ arg.write = "dump_failed"
    /\ data_file = Unparseable
    /\ Len(before) = 1
    /\ posted_videos = Append(before, arg.video_details)

\* C18: whatever the file holds, no query and no append on the loaded
\* ledger raises; and a missing, zero-byte or unparseable file gives the
\* empty ledger.
LoadedLedgerNeverRaises ==
    /\ pc # "raised"
    /\ data_file.kind \in {"missing", "empty", "garbage"}
       => LoadPostedVideos(data_file) = <<>>

\* C21: the format decision depends on the duration only, with the
\* threshold 60 inclusive (0 and 60 are Reels, 61 is not); once the decision
\* is made, is_reel says whether the duration is at most 60, the converted
\* file exists and is the one published exactly for a Reel, the Reel phases
\* are called exactly for a Reel, and a longer video is published from the
\* downloaded file as it is.
FormatDecidedByDuration ==
    /\ IsReel(0) /\ IsReel(60) /\ ~IsReel(61)
    /\ \A d \in {0, 59, 60, 61, 62} : IsReel(d) <=> d <= 60
    /\ pc \in {"upload_start", "page", "record"}
       => /\ is_reel <=> details.duration <= 60
          /\ is_reel => /\ video_path = ReelFile(details.source_url)
                        /\ video_path \in created
          /\ ~is_reel => /\ video_path = original_path
                         /\ video_path = OrigFile(details.source_url)
                         /\ video_path \in disk
                         /\ ReelFile(details.source_url) \notin created
          /\ \A k \in 1..Len(calls) :
                /\ calls[k].op \in {"start", "transfer", "finish"} => is_reel
                /\ calls[k].op = "video" => ~is_reel

\* C21 witness: a video of exactly 60 s was converted and its publication
\* as a Reel has been started on the first page.
SixtySecondsIsReel ==
    /\ pc \in {"page", "record"}
    /\ details.duration = 60
    /\ is_reel
    /\ video_path = ReelFile(details.source_url)
    /\ \E k \in 1..Len(calls) : calls[k].op = "start"

\* The locator the strategies give when they are tried in the order
\* structured object, script-variable pattern, meta-tag pattern and the
\* first one that yields a locator wins: <<id>>, or <<>> when none does.
FirstLocatorId(page) ==
    IF page.ld.kind = "url" THEN <<page.ld.url.id>>
    ELSE IF page.stream # <<>> THEN <<page.stream[1].id>>
    ELSE IF page.meta # <<>> THEN <<page.meta[1].id>>
    ELSE <<>>

\* C22: _extract_video_url returns the locator of the first strategy, in
\* the order structured object, script variable, meta tag, that yields one:
\* the structured object's URL when it has one, and otherwise the match of
\* the next strategy; it returns None only when none of them yields one.
FirstStrategyWins ==
    arg.op = "extract" =>
        LET page == arg.page IN
        /\ FirstLocatorId(page) # <<>>
           => (ret # PyNone /\ ret[1].id = FirstLocatorId(page)[1])
        /\ (FirstLocatorId(page) = <<>> /\ page.src = <<>>) => ret = PyNone

\* C23: every locator that extraction returns is absolute: none begins
\* with //, whichever strategy produced it.
LocatorIsAbsolute ==
    /\ (arg.op = "extract" /\ ret # PyNone) => ~ret[1].rel
    /\ (arg.op = "details" /\ ret # PyNone) => ~ret[1].source_url.rel

\* C24: when the page has no duration text or one in neither supported
\* form, and a title and a locator are found, get_video_details returns the
\* metadata with duration 0.
UnparsedDurationIsZero ==
    (/\ arg.op = "details"
     /\ arg.page.dur.form \notin {"seconds", "mmss"}
     /\ arg.page.title
     /\ ExtractVideoUrl(variant, arg.page) # PyNone)
    => /\ ret # PyNone
       /\ ret[1].duration = 0

\* C25: every entry of the results of main.py's upload_to_all_pages has a
\* post id exactly when its status is success, and the post id of a success
\* entry is one the remote service returned (truthy).
PostIdIffSuccess ==
    variant = "main" =>
        \A k \in 1..Len(upload_results) :
            LET r == upload_results[k] IN
            /\ r.status \in {"success", "failed", "error"}
            /\ "post_id" \in DOMAIN r <=> r.status = "success"
            /\ r.status = "success" => r.post_id \in RemoteIds

\* C25 witness: the results of one video hold a success entry for the
\* first page and an entry without success for the second.
SuccessAndFailureSideBySide ==
    /\ variant = "main"
    /\ Len(upload_results) = 2
    /\ upload_results[1].status = "success"
    /\ upload_results[2].status # "success"

\* A publish result or a ledger record holds a credential: it has a field
\* access_token, or its page or post id is an access token.
HoldsCredential(r) ==
    \/ "access_token" \in DOMAIN r
    \/ "page" \in DOMAIN r /\ r.page \in AccessTokens
    \/ "post_id" \in DOMAIN r /\ r.post_id \in AccessTokens

\* No record of the ledger, in memory or in the file, and no publish result
\* stored in a record holds a credential.
LedgerHoldsNoCredential ==
    LET Clean(ledger) ==
            \A i \in 1..Len(ledger) :
                /\ ~HoldsCredential(ledger[i])
                /\ \A k \in 1..Len(ledger[i].posted_to) :
                      ~HoldsCredential(ledger[i].posted_to[k])
    IN /\ Clean(posted_videos)
       /\ \/ LoadPostedVideos(data_file) = posted_videos
          \/ Clean(LoadPostedVideos(data_file))

\* C26: at every moment of every run, no record of the ledger, in memory or
\* in the file, and no publish result stored in a record holds an access
\* token.
NoCredentialInLedger == []LedgerHoldsNoCredential

\* C26 witness: main.py has recorded a video in this cycle with a success
\* for one page and a failure for the other, and the file holds the record.
MixedResultsRecorded ==
    /\ variant = "main"
    /\ Len(posted_videos) > cycle_base
    /\ LoadPostedVideos(data_file) = posted_videos
    /\ LET r == posted_videos[Len(posted_videos)]
       IN /\ Len(r.posted_to) = 2
          /\ \E k \in 1..2 : r.posted_to[k].status = "success"
          /\ \E k \in 1..2 : r.posted_to[k].status # "success"

\* C27: download_video is called for a candidate only when no record of the
\* ledger has the candidate's media URL as its source_url.
DownloadOnlyOfUnrecorded ==
    pc = "download"
    => \A i \in 1..Len(posted_videos) :
          posted_videos[i].source_url # details.source_url

ExceptionSparesOtherCandidates ==
    [][(pc \in CandidatePcs /\ remaining # {}) => pc' # "cooldown"]_vars

\* C30: for one FacebookUploader the counter stays within 0..max_api_calls
\* and equals the number of requests sent since its last reset; a call that
\* finds the counter at the ceiling and no reset due returns None, sends
\* nothing and leaves the counter as it is; and the counter goes back only
\* in a call that found last_reset more than 3600 s old, which restarts
\* the count.
CounterWithinCeiling ==
    /\ [](/\ api_calls \in 0..MAX_API_CALLS
          /\ window_calls = api_calls)
    /\ []((/\ arg.op = "make_api_call"
           /\ arg.api_calls >= MAX_API_CALLS
           /\ arg.since # "over")
          => /\ ret = PyNone
             /\ ~arg.sent
             /\ api_calls = arg.api_calls)
    /\ [][api_calls' < api_calls
          => /\ arg'.op = "make_api_call"
             /\ since_reset = "over"
             /\ api_calls' = 1]_vars

\* C30 witness: a call found the counter at the ceiling, exactly 3600 s
\* after the last reset, and was refused.
CallRefusedAtCeiling ==
    /\ arg.op = "make_api_call"
    /\ arg.api_calls = MAX_API_CALLS
    /\ arg.since = "at"
    /\ ~arg.sent
    /\ ret = PyNone
    /\ api_calls = MAX_API_CALLS

\* C31: in both scripts, a step that increments new_videos for a candidate
\* appends exactly one record, the candidate's, to the ledger; so at every
\* point of a cycle, and at its end, new_videos is the number of records
\* appended to the ledger since the cycle began.
CounterMatchesLedgerGrowth ==
    /\ [][new_videos' = new_videos + 1
          => /\ Len(posted_videos') = Len(posted_videos) + 1
             /\ SubSeq(posted_videos', 1, Len(posted_videos)) = posted_videos
             /\ posted_videos'[Len(posted_videos')].source_url
                    = details.source_url]_vars
    /\ [](new_videos = Len(posted_videos) - cycle_base)

====
